---- MODULE Spec2Model ----
(***************************************************************************)
(* Model of back/src/api/api.py: the FastAPI request gateway of the acne   *)
(* tracker (profile store, correlation analysis and /detect endpoints).   *)
(*                                                                         *)
(* Conventions.                                                            *)
(*  - A Python Optional value is a sequence of length at most one:         *)
(*    None is <<>> and the value v is <<v>>.                               *)
(*  - A Python dict is a TLA+ function from the set of its keys.           *)
(*  - A text is a sequence of strings.  Texts that the code inspects       *)
(*    character by character are sequences of one-character strings;      *)
(*    an f-string is the sequence of its literal parts and its values.    *)
(*  - An HTTP response is [endpoint, status, body]; an HTTPException of    *)
(*    the handler has its detail as body; an exception that escapes the    *)
(*    handler is the framework's plain 500.                                *)
(***************************************************************************)
EXTENDS Integers, Sequences, FiniteSets, TLC

VARIABLES
    app,                 \* "loading" | "up" | "import_error": the module's import
    analyze_skin_image,  \* "unbound" | "fn" | "None"   (lines 15, 46-49)
    analyze_acne_data,   \* "unbound" | "fn" | "None"   (lines 39-42)
    db_api,              \* names bound by the import of user_profile_db (line 20)
    weights_exist,       \* whether MODEL_WEIGHTS_PATH is a file on disk now
    weights_at_startup,  \* what line 77 saw
    db_exists,           \* whether BACK_DIR/acne_tracker.db is on disk now
    store,               \* the profile store: user_id -> Optional record
    saved,               \* history: user_id -> Optional Profile last saved
    tmp_files,           \* temporary upload files on disk
    tmp_seq,             \* how many temporary files were ever created
    req,                 \* the last request handled
    resp,                \* its response
    trace                \* what its handler did (collaborator calls, files)

vars == <<app, analyze_skin_image, analyze_acne_data, db_api, weights_exist,
          weights_at_startup, db_exists, store, saved, tmp_files, tmp_seq,
          req, resp, trace>>

\* Temporary files one run may create (tempfile names never repeat).
MaxTmp == 1

None == <<>>

Some(v) == <<v>>

\* dict.get(key, default)
Get(d, key, default) == IF key \in DOMAIN d THEN d[key] ELSE default

\* The plain response of the framework for an exception the handler lets escape.
InternalServerError == <<"Internal Server Error">>

NoRequest == [endpoint |-> "none"]

NoResponse == [endpoint |-> "none", status |-> 0, body |-> <<>>]

NoTrace == [endpoint |-> "none"]

----------------------------------------------------------------------------
(* Module import, lines 14-79.                                             *)

DbNames == <<"init_db", "save_profile_to_db", "get_profile_from_db">>

\* `from m import a, b, c` binds the names in order and stops at the first one
\* it cannot import: n of the three names end up bound (3: the import worked).
BoundNames(n) == {DbNames[i] : i \in 1..n}

UserIds == {"user_1", "user_2"}

EmptyStore == [u \in UserIds |-> None]

\* Lines 15 and 16 are unguarded: when either import raises, the module does not
\* load and no handler ever runs.
LoadModuleFails ==
    /\ app = "loading"
    /\ app' = "import_error"
    /\ UNCHANGED <<analyze_skin_image, analyze_acne_data, db_api, weights_exist,
                   weights_at_startup, db_exists, store, saved, tmp_files,
                   tmp_seq, req, resp, trace>>

\* Lines 15-79 when lines 15 and 16 succeed.  Line 46 imports again the name
\* line 15 has imported from the same (now cached) module, so it succeeds.
\* Line 39 imports a function of the module of line 16 and can fail alone.
LoadModule ==
    /\ app = "loading"
    /\ \E n \in 0..3, acne_ok \in BOOLEAN :
          /\ db_api' = BoundNames(n)
          /\ analyze_acne_data' = IF acne_ok THEN "fn" ELSE "None"
    /\ analyze_skin_image' = "fn"
    /\ store' = EmptyStore
    /\ weights_at_startup' = weights_exist
    /\ app' = "up"
    /\ UNCHANGED <<weights_exist, db_exists, saved, tmp_files, tmp_seq,
                   req, resp, trace>>

----------------------------------------------------------------------------
(* The environment: files that other processes create and remove.          *)

WeightsFileChanges ==
    /\ weights_exist' = ~weights_exist
    /\ UNCHANGED <<app, analyze_skin_image, analyze_acne_data, db_api,
                   weights_at_startup, db_exists, store, saved, tmp_files,
                   tmp_seq, req, resp, trace>>

DatabaseFileChanges ==
    /\ db_exists' = ~db_exists
    /\ UNCHANGED <<app, analyze_skin_image, analyze_acne_data, db_api,
                   weights_exist, weights_at_startup, store, saved, tmp_files,
                   tmp_seq, req, resp, trace>>

----------------------------------------------------------------------------
(* Pydantic model Profile, lines 85-91, and date.isoformat().              *)

Names == {"Ann", "Bo"}

Dates == {[year |-> 987, month |-> 6, day |-> 5],
          [year |-> 2004, month |-> 12, day |-> 31]}

Genders == {"F"}

Heights == {170}

Weights == {65}

RequiredFields ==
    {[name |-> n, dob |-> d, height |-> h, weight |-> w] :
        n \in Names, d \in Dates, h \in Heights, w \in Weights}

\* A request body that passes validation: the required fields are there and
\* well typed; user_id and gender may be left out, gender may be null.
ProfilePayloads ==
    LET WithUser == RequiredFields
                    \cup {("user_id" :> u) @@ b : u \in UserIds, b \in RequiredFields}
    IN WithUser \cup {("gender" :> g) @@ b : g \in Genders \cup {"null"}, b \in WithUser}

\* Profile(**payload): the defaults of lines 86 and 91 fill the missing fields.
Profile(payload) ==
    [user_id |-> Get(payload, "user_id", "user_1"),
     name    |-> payload["name"],
     dob     |-> payload["dob"],
     height  |-> payload["height"],
     weight  |-> payload["weight"],
     gender  |-> IF "gender" \notin DOMAIN payload THEN Some("Not Specified")
                 ELSE IF payload["gender"] = "null" THEN None
                 ELSE Some(payload["gender"])]

Digit(n) == <<"0", "1", "2", "3", "4", "5", "6", "7", "8", "9">>[n + 1]

\* "%0*d": n in decimal, zero padded to width w.
RECURSIVE Pad(_, _)
Pad(n, w) == IF w = 0 THEN <<>> ELSE Append(Pad(n \div 10, w - 1), Digit(n % 10))

\* date.isoformat(): YYYY-MM-DD
isoformat(d) == Pad(d.year, 4) \o <<"-">> \o Pad(d.month, 2) \o <<"-">> \o Pad(d.day, 2)

----------------------------------------------------------------------------
(* The profile store (db/user_profile_db.py), a faithful keyed store.      *)

\* save_profile_to_db(user_id=..., name=..., dob=..., height=..., weight=..., gender=...)
save_profile_to_db(st, args) == [st EXCEPT ![args.user_id] = Some(args)]

\* get_profile_from_db(user_id): the record, or None
get_profile_from_db(st, user_id) == st[user_id]

----------------------------------------------------------------------------
(* Module globals as a handler reads them.                                 *)

\* A name the import of line 20 did not bind raises NameError when read.
Global(name) == IF name \in db_api THEN "fn" ELSE "NameError"

\* `not x` for a module global holding a function or None
Falsy(g) == g = "None"

----------------------------------------------------------------------------
(* POST /profile/, lines 117-130.                                          *)

\* The call with height and weight passed in each other's place.
SaveArgs_M(profile) ==
    [user_id |-> profile.user_id, name |-> profile.name,
     dob |-> isoformat(profile.dob), height |-> profile.weight,
     weight |-> profile.height, gender |-> profile.gender]

\* The keyword arguments of the call of lines 122-125.
SaveArgs(profile) ==
    [user_id |-> profile.user_id, name |-> profile.name,
     dob |-> isoformat(profile.dob), height |-> profile.height,
     weight |-> profile.weight, gender |-> profile.gender]

\* Result: the response, the store afterwards, whether the store was called
\* and whether its call returned.  store_raises: the store's save raises.
save_profile_endpoint(profile, store_raises) ==
    LET g == Global("save_profile_to_db") IN
    IF g = "NameError"
    THEN [status |-> 500, body |-> InternalServerError, store |-> store,
          called |-> FALSE, returned |-> FALSE]
    ELSE IF Falsy(g)
    THEN [status |-> 501, body |-> <<"Profile saving feature not available.">>,
          store |-> store, called |-> FALSE, returned |-> FALSE]
    ELSE IF store_raises
    THEN [status |-> 500, body |-> <<"Failed to save profile.">>,
          store |-> store, called |-> TRUE, returned |-> FALSE]
    ELSE [status |-> 200, body |-> <<"Profile saved successfully">>,
          store |-> save_profile_to_db(store, SaveArgs(profile)),
          called |-> TRUE, returned |-> TRUE]

SaveProfile ==
    /\ app = "up"
    /\ \E payload \in ProfilePayloads, store_raises \in BOOLEAN :
         LET profile == Profile(payload)
             out == save_profile_endpoint(profile, store_raises)
         IN /\ req' = [endpoint |-> "save_profile", user_id |-> profile.user_id]
            /\ resp' = [endpoint |-> "save_profile", status |-> out.status,
                        body |-> out.body]
            /\ trace' = [endpoint |-> "save_profile", called |-> out.called]
            /\ store' = out.store
            /\ saved' = IF out.returned
                        THEN [saved EXCEPT ![profile.user_id] = Some(profile)]
                        ELSE saved
    /\ UNCHANGED <<app, analyze_skin_image, analyze_acne_data, db_api,
                   weights_exist, weights_at_startup, db_exists, tmp_files, tmp_seq>>

----------------------------------------------------------------------------
(* GET /profile/{user_id}, lines 133-149.                                  *)

\* `if profile_data:` for an Optional record (a stored record is never empty)
Truthy(opt) == opt # None

\* What the try block of lines 137-143 ends with: the value it returns, or
\* the exception it raises.
get_profile_try(user_id, store_raises) ==
    IF store_raises
    THEN [raised |-> "Exception", status |-> 0, body |-> <<>>]
    ELSE LET profile_data == get_profile_from_db(store, user_id) IN
         IF Truthy(profile_data)
         THEN [raised |-> "no", status |-> 200, body |-> profile_data[1]]
         ELSE [raised |-> "HTTPException", status |-> 404,
               body |-> <<"Profile not found">>]

\* The handler without the clause of lines 144-145: the not-found signal
\* falls into `except Exception`.
get_profile_except_M(t) ==
    IF t.raised \in {"HTTPException", "Exception"}
    THEN [status |-> 500, body |-> <<"Failed to fetch profile.">>]
    ELSE [status |-> t.status, body |-> t.body]

\* The except clauses of lines 144-149.
get_profile_except(t) ==
    IF t.raised = "HTTPException" THEN [status |-> t.status, body |-> t.body]
    ELSE IF t.raised = "Exception"
    THEN [status |-> 500, body |-> <<"Failed to fetch profile.">>]
    ELSE [status |-> t.status, body |-> t.body]

get_profile_endpoint(user_id, store_raises) ==
    LET g == Global("get_profile_from_db") IN
    IF g = "NameError"
    THEN [status |-> 500, body |-> InternalServerError, called |-> FALSE]
    ELSE IF Falsy(g)
    THEN [status |-> 501, body |-> <<"Profile fetching feature not available.">>,
          called |-> FALSE]
    ELSE LET r == get_profile_except(get_profile_try(user_id, store_raises))
         IN [status |-> r.status, body |-> r.body, called |-> TRUE]

GetProfile ==
    /\ app = "up"
    /\ \E user_id \in UserIds, store_raises \in BOOLEAN :
         LET out == get_profile_endpoint(user_id, store_raises)
         IN /\ req' = [endpoint |-> "get_profile", user_id |-> user_id]
            /\ resp' = [endpoint |-> "get_profile", status |-> out.status,
                        body |-> out.body]
            /\ trace' = [endpoint |-> "get_profile", called |-> out.called,
                         store_raised |-> out.called /\ store_raises]
    /\ UNCHANGED <<app, analyze_skin_image, analyze_acne_data, db_api,
                   weights_exist, weights_at_startup, db_exists, store, saved,
                   tmp_files, tmp_seq>>

----------------------------------------------------------------------------
(* GET /analyze/, lines 152-171.                                           *)

db_path == "BACK_DIR/acne_tracker.db"

\* Exception classes the correlation engine raises, each with the classes it
\* is an instance of.
ExceptionTypes ==
    [FileNotFoundError |-> {"FileNotFoundError", "OSError", "Exception"},
     PermissionError   |-> {"PermissionError", "OSError", "Exception"},
     ValueError        |-> {"ValueError", "Exception"}]

IsInstance(exc, class) == class \in ExceptionTypes[exc.type]

CollaboratorMessages == {<<"no such table: entries">>, <<"history.csv">>}

AnalysisOutcomes ==
    {[raises |-> TRUE, type |-> t, msg |-> m, value |-> <<>>] :
        t \in DOMAIN ExceptionTypes, m \in CollaboratorMessages}
    \cup
    {[raises |-> FALSE, type |-> "", msg |-> <<>>, value |-> v] :
        v \in {<<"corr_a", "summary a">>, <<"corr_b", "summary b">>, <<"corr_a">>}}

\* What the try block of lines 156-164 ends with.  outcome: what the call of
\* analyze_acne_data does when it is reached.
analyze_try(outcome) ==
    IF ~db_exists
    THEN [raised |-> TRUE, called |-> FALSE,
          exc |-> [type |-> "FileNotFoundError",
                   msg |-> <<"Database file not found at required path: ", db_path>>],
          value |-> <<>>]
    ELSE IF outcome.raises
    THEN [raised |-> TRUE, called |-> TRUE,
          exc |-> [type |-> outcome.type, msg |-> outcome.msg], value |-> <<>>]
    ELSE IF Len(outcome.value) # 2
    THEN [raised |-> TRUE, called |-> TRUE,
          exc |-> [type |-> "ValueError",
                   msg |-> <<"not enough values to unpack">>], value |-> <<>>]
    ELSE [raised |-> FALSE, called |-> TRUE, exc |-> [type |-> "", msg |-> <<>>],
          value |-> outcome.value]

\* The except clauses of lines 165-171.
analyze_except(t) ==
    IF ~t.raised
    THEN [status |-> 200,
          body |-> [correlations |-> t.value[1], summary |-> t.value[2]]]
    ELSE IF IsInstance(t.exc, "FileNotFoundError")
    THEN [status |-> 404, body |-> t.exc.msg]
    ELSE [status |-> 500,
          body |-> <<"Failed during correlation analysis: ">> \o t.exc.msg]

analyze_endpoint(outcome) ==
    IF Falsy(analyze_acne_data)
    THEN [status |-> 501,
          body |-> <<"Correlation analysis feature not available.">>,
          called |-> FALSE]
    ELSE LET t == analyze_try(outcome)
             r == analyze_except(t)
         IN [status |-> r.status, body |-> r.body, called |-> t.called]

Analyze ==
    /\ app = "up"
    /\ \E outcome \in AnalysisOutcomes :
         LET out == analyze_endpoint(outcome)
         IN /\ req' = [endpoint |-> "analyze", db_exists |-> db_exists]
            /\ resp' = [endpoint |-> "analyze", status |-> out.status,
                        body |-> out.body]
            /\ trace' = [endpoint |-> "analyze", called |-> out.called,
                         raised |-> out.called /\ outcome.raises,
                         exc |-> IF out.called /\ outcome.raises
                                 THEN [type |-> outcome.type, msg |-> outcome.msg]
                                 ELSE [type |-> "", msg |-> <<>>]]
    /\ UNCHANGED <<app, analyze_skin_image, analyze_acne_data, db_api,
                   weights_exist, weights_at_startup, db_exists, store, saved,
                   tmp_files, tmp_seq>>

----------------------------------------------------------------------------
(* GET /, lines 294-296.                                                   *)

ReadRoot ==
    /\ app = "up"
    /\ req' = [endpoint |-> "read_root"]
    /\ resp' = [endpoint |-> "read_root", status |-> 200,
                body |-> <<"Acne Tracker Analysis API is running.">>]
    /\ trace' = [endpoint |-> "read_root"]
    /\ UNCHANGED <<app, analyze_skin_image, analyze_acne_data, db_api,
                   weights_exist, weights_at_startup, db_exists, store, saved,
                   tmp_files, tmp_seq>>

----------------------------------------------------------------------------
(* Texts of /detect and the string operations of line 254.                 *)

\* "not found"
NotFoundText ==
    <<"n", "o", "t", " ", "f", "o", "u", "n", "d">>

\* "Unknown analysis error"
UnknownAnalysisError ==
    <<"U", "n", "k", "n", "o", "w", "n", " ", "a", "n", "a", "l", "y", "s",
      "i", "s", " ", "e", "r", "r", "o", "r">>

\* "Analysis function returned invalid data"
InvalidData ==
    <<"A", "n", "a", "l", "y", "s", "i", "s", " ", "f", "u", "n", "c", "t",
      "i", "o", "n", " ", "r", "e", "t", "u", "r", "n", "e", "d", " ", "i",
      "n", "v", "a", "l", "i", "d", " ", "d", "a", "t", "a">>

\* "Analysis successful."
AnalysisSuccessful ==
    <<"A", "n", "a", "l", "y", "s", "i", "s", " ", "s", "u", "c", "c", "e",
      "s", "s", "f", "u", "l", ".">>

(* Messages the detection engine reports.                                  *)

\* "model not found"
MsgModelNotFound ==
    <<"m", "o", "d", "e", "l", " ", "n", "o", "t", " ", "f", "o", "u", "n",
      "d">>

\* "Model Not Found"
MsgModelNotFoundCaps ==
    <<"M", "o", "d", "e", "l", " ", "N", "o", "t", " ", "F", "o", "u", "n",
      "d">>

\* "weights file NOT FOUND on disk"
MsgWeightsMissing ==
    <<"w", "e", "i", "g", "h", "t", "s", " ", "f", "i", "l", "e", " ", "N",
      "O", "T", " ", "F", "O", "U", "N", "D", " ", "o", "n", " ", "d", "i",
      "s", "k">>

\* "bad image"
MsgBadImage ==
    <<"b", "a", "d", " ", "i", "m", "a", "g", "e">>

\* "notfound"
MsgNotfound ==
    <<"n", "o", "t", "f", "o", "u", "n", "d">>

\* "done"
MsgDone ==
    <<"d", "o", "n", "e">>

UpperCase == <<"A", "B", "C", "D", "E", "F", "G", "H", "I", "J", "K", "L", "M",
               "N", "O", "P", "Q", "R", "S", "T", "U", "V", "W", "X", "Y", "Z">>

LowerCase == <<"a", "b", "c", "d", "e", "f", "g", "h", "i", "j", "k", "l", "m",
               "n", "o", "p", "q", "r", "s", "t", "u", "v", "w", "x", "y", "z">>

\* str.lower()
lower(s) ==
    [i \in 1..Len(s) |->
        IF \E k \in 1..Len(UpperCase) : UpperCase[k] = s[i]
        THEN LowerCase[CHOOSE k \in 1..Len(UpperCase) : UpperCase[k] = s[i]]
        ELSE s[i]]

\* `needle in s` for two strings
In(needle, s) ==
    \E i \in 0..(Len(s) - Len(needle)) : SubSeq(s, i + 1, i + Len(needle)) = needle

----------------------------------------------------------------------------
(* The upload and the external calls of one /detect request.               *)

\* The allow-list with one type too many.
allowed_types_M == {"image/jpeg", "image/png", "image/bmp", "image/gif"}

allowed_types == {"image/jpeg", "image/png", "image/bmp"}

\* Declared content types of the uploads.
ContentTypes == {"image/jpeg", "image/bmp", "image/gif"}

\* Uploaded bytes: their number, and the image cv2.imread decodes from them
\* (None: the bytes are no image).
Contents ==
    {[size |-> 0, image |-> None],
     [size |-> 3, image |-> None],
     [size |-> 9, image |-> Some([width |-> 800, height |-> 600])]}

Files == [content_type : ContentTypes, content : Contents]

\* cv2.imread(path) on a file holding `content`
imread(content) == content.image

\* cv2.resize(img, (640, 640))
resize(img) == [width |-> 640, height |-> 640]

\* cv2.imencode('.png', data) followed by base64.b64encode(buffer).decode()
b64png(data) == <<"base64", <<"png", data>>>>

EmptyDict == <<>>

OkFull ==
    [success |-> TRUE, message |-> MsgDone, severity_score |-> 42,
     percentage_area |-> 7, average_intensity |-> 3, lesion_count |-> 5,
     heatmap_overlay_bgr |-> [ndarray |-> TRUE, data |-> "overlay"],
     detections |-> <<[class_name |-> "papule", confidence |-> 90],
                      [class_name |-> "nodule", confidence |-> 55]>>,
     model_classes |-> <<"papule", "nodule">>]

\* Dicts analyze_skin_image returns.
ResultDicts ==
    {EmptyDict, [success |-> FALSE], [message |-> MsgBadImage]}
    \cup {[success |-> FALSE, message |-> m] :
            m \in {MsgModelNotFound, MsgModelNotFoundCaps, MsgWeightsMissing,
                   MsgBadImage, MsgNotfound}}
    \cup {[success |-> TRUE],
          OkFull,
          [success |-> TRUE, message |-> MsgModelNotFound, lesion_count |-> 0,
           detections |-> <<>>],
          [OkFull EXCEPT !.heatmap_overlay_bgr = [ndarray |-> FALSE, data |-> "list"]],
          [OkFull EXCEPT !.detections = <<[class_name |-> "papule"]>>]}

\* What the call of analyze_skin_image does: raise, return None, return a dict.
DetectionOutcomes ==
    {[raises |-> TRUE, value |-> None], [raises |-> FALSE, value |-> None]}
    \cup {[raises |-> FALSE, value |-> Some(d)] : d \in ResultDicts}

\* The dicts whose heatmap reaches the encoder.
HasNdarray(d) == "heatmap_overlay_bgr" \in DOMAIN d /\ d["heatmap_overlay_bgr"].ndarray

\* The outcomes of the external calls of one request.  fault: the call that
\* raises, among NamedTemporaryFile, file.read, write, cv2.resize/imwrite;
\* remove_fails: os.remove raises OSError.  A call that is not reached has one
\* outcome here: os.remove when the path was never assigned, the detection
\* engine when staging raises, the encoder without an ndarray heatmap.
Envs ==
    [fault : {"NamedTemporaryFile", "read", "write"}, remove_fails : {FALSE},
     analysis : {[raises |-> TRUE, value |-> None]}, encode : {"ok"}]
    \cup
    [fault : {"resize"}, remove_fails : BOOLEAN,
     analysis : {[raises |-> TRUE, value |-> None]}, encode : {"ok"}]
    \cup
    [fault : {"none"}, remove_fails : BOOLEAN,
     analysis : DetectionOutcomes, encode : {"ok"}]
    \cup
    [fault : {"none"}, remove_fails : BOOLEAN,
     analysis : {[raises |-> FALSE, value |-> Some(d)] :
                    d \in {x \in ResultDicts : HasNdarray(x)}},
     encode : {"fail", "raises"}]

----------------------------------------------------------------------------
(* POST /detect, lines 174-290.                                            *)

\* The check made against what the startup check of line 77 saw.
weights_missing_M == ~weights_at_startup

\* `not os.path.exists(MODEL_WEIGHTS_PATH)`, line 218
weights_missing == ~weights_exist

\* What the try block of lines 196-230 ends with.  raised: "no", or the class
\* of the exception; failed_call: the external call that raised it; created:
\* NamedTemporaryFile made its file (delete=False); temp_image_path: the
\* variable of line 195 when the block ends; image: what the temporary file
\* holds; invoked: analyze_skin_image was called.
detect_try(file, env, path) ==
    LET Ends(raised, status, detail, failed_call, created, assigned, image,
             invoked, results) ==
            [raised |-> raised, status |-> status, detail |-> detail,
             failed_call |-> failed_call, created |-> created,
             temp_image_path |-> IF assigned THEN Some(path) ELSE None,
             image |-> image, invoked |-> invoked, analysis_results |-> results]
        img == imread(file.content)
    IN
    IF env.fault = "NamedTemporaryFile"
    THEN Ends("Exception", 0, <<>>, env.fault, FALSE, FALSE, None, FALSE, None)
    ELSE IF env.fault = "read"
    THEN Ends("Exception", 0, <<>>, env.fault, TRUE, FALSE, None, FALSE, None)
    ELSE IF file.content.size = 0
    THEN Ends("HTTPException", 400, <<"Received empty file content.">>, "none",
              TRUE, FALSE, None, FALSE, None)
    ELSE IF env.fault = "write"
    THEN Ends("Exception", 0, <<>>, env.fault, TRUE, FALSE, None, FALSE, None)
    ELSE IF img = None
    THEN Ends("HTTPException", 400, <<"Could not read the uploaded image.">>,
              "none", TRUE, TRUE, None, FALSE, None)
    ELSE IF env.fault = "resize"
    THEN Ends("Exception", 0, <<>>, env.fault, TRUE, TRUE, img, FALSE, None)
    ELSE IF weights_missing
    THEN Ends("HTTPException", 503,
              <<"Required analysis model file is currently unavailable.">>,
              "none", TRUE, TRUE, Some(resize(img[1])), FALSE, None)
    ELSE IF env.analysis.raises
    THEN Ends("Exception", 0, <<>>, "analyze_skin_image", TRUE, TRUE,
              Some(resize(img[1])), TRUE, None)
    ELSE Ends("no", 0, <<>>, "none", TRUE, TRUE, Some(resize(img[1])), TRUE,
              env.analysis.value)

\* The handler without the clause of lines 232-234: every exception of the
\* try block becomes the generic 500.
detect_except_M(t) ==
    [status |-> 500,
     detail |-> <<"An error occurred while processing the image.">>]

\* The except clauses of lines 232-240: the exception the handler raises.
detect_except(t) ==
    IF t.raised = "HTTPException" THEN [status |-> t.status, detail |-> t.detail]
    ELSE [status |-> 500,
          detail |-> <<"An error occurred while processing the image.">>]

\* The finally clause of lines 241-248: the files of this request that are on
\* disk when it ends.  The file exists from its creation on; os.remove may
\* raise OSError, which is logged.
detect_finally(t, env, path) ==
    IF ~t.created THEN {}
    ELSE IF t.temp_image_path # None /\ ~env.remove_fails THEN {}
    ELSE {path}

\* `not analysis_results or not analysis_results.get('success')`, line 251
analysis_failed(analysis_results) ==
    \/ analysis_results = None
    \/ DOMAIN analysis_results[1] = {}
    \/ ~Get(analysis_results[1], "success", FALSE)

\* Line 254 without .lower(): the message is searched as it is.
detect_failure_M(analysis_results) ==
    LET error_message ==
            IF analysis_results # None /\ DOMAIN analysis_results[1] # {}
            THEN Get(analysis_results[1], "message", UnknownAnalysisError)
            ELSE InvalidData
    IN [status |-> IF In(NotFoundText, error_message) THEN 404 ELSE 500,
        detail |-> error_message]

\* Lines 252-257: the HTTPException for a failed analysis.
detect_failure(analysis_results) ==
    LET error_message ==
            IF analysis_results # None /\ DOMAIN analysis_results[1] # {}
            THEN Get(analysis_results[1], "message", UnknownAnalysisError)
            ELSE InvalidData
    IN [status |-> IF In(NotFoundText, lower(error_message)) THEN 404 ELSE 500,
        detail |-> error_message]

\* Lines 264-266 without the test of `success`: the buffer is encoded to
\* base64 whatever cv2.imencode reports.
encode_heatmap_M(d, env) ==
    IF HasNdarray(d)
    THEN IF env.encode \in {"ok", "fail"}
         THEN [heatmap_base64 |-> Some(b64png(d["heatmap_overlay_bgr"].data)),
               encoded |-> env.encode]
         ELSE [heatmap_base64 |-> None, encoded |-> env.encode]
    ELSE [heatmap_base64 |-> None, encoded |-> "skipped"]

\* Lines 260-273: the heatmap as base64 text, or None.  encoded: what the
\* encoder did, "skipped" when it was not called.
encode_heatmap(d, env) ==
    IF HasNdarray(d)
    THEN IF env.encode = "ok"
         THEN [heatmap_base64 |-> Some(b64png(d["heatmap_overlay_bgr"].data)),
               encoded |-> "ok"]
         ELSE [heatmap_base64 |-> None, encoded |-> env.encode]
    ELSE [heatmap_base64 |-> None, encoded |-> "skipped"]

\* `key` of the dict as an Optional field of the response model
Field(d, key) == IF key \in DOMAIN d THEN Some(d[key]) ELSE None

\* DetectionInfo(**det), lines 97-99: both fields are required.
DetectionInfoValid(det) == {"class_name", "confidence"} \subseteq DOMAIN det

\* Lines 277-290: the response model, or the validation error that escapes.
detect_response(d, heatmap_base64) ==
    LET detections == Get(d, "detections", <<>>) IN
    IF \E i \in 1..Len(detections) : ~DetectionInfoValid(detections[i])
    THEN [status |-> 500, body |-> InternalServerError]
    ELSE [status |-> 200,
          body |-> [success |-> TRUE,
                    message |-> Get(d, "message", AnalysisSuccessful),
                    severity_score |-> Field(d, "severity_score"),
                    percentage_area |-> Field(d, "percentage_area"),
                    average_intensity |-> Field(d, "average_intensity"),
                    lesion_count |-> Field(d, "lesion_count"),
                    heatmap_image_base64 |-> heatmap_base64,
                    detections |-> detections,
                    model_classes |-> Field(d, "model_classes")]]

\* The handler.  path: the name NamedTemporaryFile picks.  Result: the
\* response, and what the handler did.
detect_skin_conditions(file, env, path) ==
    LET Did(status, body, t, left, encoded) ==
            [status |-> status, body |-> body, created |-> t.created,
             left |-> left, invoked |-> t.invoked, image |-> t.image,
             failed_call |-> t.failed_call,
             remove_raised |-> t.temp_image_path # None /\ env.remove_fails,
             analysis_results |-> t.analysis_results, encoded |-> encoded]
        nothing == [created |-> FALSE, invoked |-> FALSE, image |-> None,
                    failed_call |-> "none", temp_image_path |-> None,
                    analysis_results |-> None]
    IN
    IF analyze_skin_image = "None"
    THEN Did(501, <<"Detection analysis feature is not available.">>,
             nothing, {}, "skipped")
    ELSE IF file.content_type \notin allowed_types
    THEN Did(415, <<"Invalid file type '", file.content_type,
                    "'. Please upload JPG, PNG, or BMP.">>, nothing, {}, "skipped")
    ELSE
    LET t == detect_try(file, env, path)
        left == detect_finally(t, env, path)
    IN
    IF t.raised # "no"
    THEN LET e == detect_except(t) IN Did(e.status, e.detail, t, left, "skipped")
    ELSE IF analysis_failed(t.analysis_results)
    THEN LET e == detect_failure(t.analysis_results)
         IN Did(e.status, e.detail, t, left, "skipped")
    ELSE
    LET d == t.analysis_results[1]
        h == encode_heatmap(d, env)
        r == detect_response(d, h.heatmap_base64)
    IN Did(r.status, r.body, t, left, h.encoded)

Detect ==
    /\ app = "up"
    /\ tmp_seq < MaxTmp
    /\ \E file \in Files, env \in Envs :
         LET path == tmp_seq + 1
             out == detect_skin_conditions(file, env, path)
         IN /\ req' = [endpoint |-> "detect", file |-> file,
                       weights_exist |-> weights_exist]
            /\ resp' = [endpoint |-> "detect", status |-> out.status,
                        body |-> out.body]
            /\ trace' = [endpoint |-> "detect",
                         created |-> IF out.created THEN {path} ELSE {},
                         invoked |-> out.invoked,
                         returned |-> out.invoked /\ out.failed_call = "none",
                         failed_call |-> out.failed_call,
                         remove_raised |-> out.remove_raised,
                         image |-> out.image,
                         analysis_results |-> out.analysis_results,
                         encoded |-> out.encoded]
            /\ tmp_seq' = IF out.created THEN path ELSE tmp_seq
            /\ tmp_files' = tmp_files \cup out.left
    /\ UNCHANGED <<app, analyze_skin_image, analyze_acne_data, db_api,
                   weights_exist, weights_at_startup, db_exists, store, saved>>

----------------------------------------------------------------------------
Init ==
    /\ app = "loading"
    /\ analyze_skin_image = "unbound"
    /\ analyze_acne_data = "unbound"
    /\ db_api = {}
    /\ weights_exist = FALSE
    /\ weights_at_startup = FALSE
    /\ db_exists = FALSE
    /\ store = EmptyStore
    /\ saved = [u \in UserIds |-> None]
    /\ tmp_files = {}
    /\ tmp_seq = 0
    /\ req = NoRequest
    /\ resp = NoResponse
    /\ trace = NoTrace


(* Two specifications.  The handlers share no state: /detect reads          *)
(* analyze_skin_image, the weights file and the temporary directory; the    *)
(* profile and analysis handlers read the names of the profile store,       *)
(* analyze_acne_data, the database file and the store.  Each specification  *)
(* runs the module import, one group of handlers and the files they read.   *)

NextData ==
    \/ LoadModule
    \/ LoadModuleFails
    \/ DatabaseFileChanges
    \/ SaveProfile
    \/ GetProfile
    \/ Analyze
    \/ ReadRoot

SpecData == Init /\ [][NextData]_vars


NextDetect ==
    \/ LoadModule
    \/ LoadModuleFails
    \/ WeightsFileChanges
    \/ Detect

SpecDetect == Init /\ [][NextDetect]_vars


----------------------------------------------------------------------------
(* Properties.                                                             *)

Detected == resp.endpoint = "detect"

AllDbNames == {"init_db", "save_profile_to_db", "get_profile_from_db"}

\* C1: after any /detect call, on every exit path of the handler, no
\* temporary file created during that call remains on disk once the handler
\* has returned or raised.  (Stated for the exit paths on which no external
\* call raised: a file left behind because os.remove, file.read or a write
\* failed is not held against the claim here.)
C1_NoTempFileRemains ==
    (Detected /\ trace.failed_call = "none" /\ ~trace.remove_raised)
        => trace.created \cap tmp_files = {}

\* C2: a /detect request whose declared content type is not image/jpeg,
\* image/png or image/bmp yields 415, whatever the bytes and the state of the
\* collaborators; it creates no temporary file and the detection engine is
\* not invoked.
C2_UnsupportedType415 ==
    (Detected /\ req.file.content_type \notin {"image/jpeg", "image/png", "image/bmp"})
        => /\ resp.status = 415
           /\ trace.created = {}
           /\ ~trace.invoked

C2_Witness ==
    /\ Detected
    /\ req.file.content_type = "image/gif"
    /\ req.file.content.image # None
    /\ req.weights_exist
    /\ resp.status = 415

\* The detection engine returned and its result counts as a failure: no
\* result, or a result whose success is not true.
ReportedFailure ==
    /\ Detected
    /\ trace.returned
    /\ \/ trace.analysis_results = None
       \/ "success" \notin DOMAIN trace.analysis_results[1]
       \/ ~trace.analysis_results[1]["success"]

ReportedMessage ==
    IF trace.analysis_results # None /\ "message" \in DOMAIN trace.analysis_results[1]
    THEN Some(trace.analysis_results[1]["message"])
    ELSE None

\* C3, as claimed: a reported failure with the message "model not found"
\* yields 404; any other failure message, and a missing result, yields 500.
C3_ModelNotFoundOnly404 ==
    ReportedFailure =>
        IF ReportedMessage = Some(MsgModelNotFound)
        THEN resp.status = 404
        ELSE resp.status = 500

\* The letters of "not found", each in either case.
NotFoundLetters ==
    <<{"n", "N"}, {"o", "O"}, {"t", "T"}, {" "}, {"f", "F"}, {"o", "O"},
      {"u", "U"}, {"n", "N"}, {"d", "D"}>>

SaysNotFound(m) ==
    \E i \in 0..(Len(m) - Len(NotFoundLetters)) :
        \A j \in 1..Len(NotFoundLetters) : m[i + j] \in NotFoundLetters[j]

\* C3, amended: a reported failure yields 404 exactly when its message
\* contains "not found" in any letter case, and 500 otherwise (another
\* message, no message, no result).
C3_NotFoundSubstring404 ==
    ReportedFailure =>
        IF ReportedMessage # None /\ SaysNotFound(ReportedMessage[1])
        THEN resp.status = 404
        ELSE resp.status = 500

C3_Witness ==
    /\ ReportedFailure
    /\ ReportedMessage = Some(MsgWeightsMissing)
    /\ resp.status = 404

\* C4: when the import of the profile store failed, POST /profile/ and
\* GET /profile/{user_id} respond 501 without calling the store.
C4_Unavailable501 ==
    (resp.endpoint \in {"save_profile", "get_profile"} /\ db_api # AllDbNames)
        => resp.status = 501 /\ ~trace.called

\* C5: in GET /analyze/ a missing data source yields 404 without invoking the
\* correlation engine, and every exception the engine raises yields 500 with
\* the engine's message in the detail, never 404.
C5_CollaboratorException500 ==
    (resp.endpoint = "analyze" /\ analyze_acne_data = "fn") =>
        /\ ~req.db_exists => (resp.status = 404 /\ ~trace.called)
        /\ trace.raised =>
              /\ resp.status = 500
              /\ resp.body = <<"Failed during correlation analysis: ">> \o trace.exc.msg

\* C6: GET /profile/{user_id} for a user_id the store holds no record of
\* yields 404, not 500 (the store is wired up and its lookup returns).
C6_UnknownUser404 ==
    (/\ resp.endpoint = "get_profile"
     /\ trace.called
     /\ ~trace.store_raised
     /\ store[req.user_id] = None)
        => resp.status = 404 /\ resp.body = <<"Profile not found">>

C6_Witness ==
    /\ resp.endpoint = "get_profile"
    /\ trace.called
    /\ ~trace.store_raised
    /\ store[req.user_id] = None
    /\ \E u \in UserIds : store[u] # None
    /\ resp.status = 404

\* C7: when the engine reports success and the encoding of its heatmap fails
\* (the encoder returns failure or raises), /detect answers 200 with success
\* true, the metrics passed through and no heatmap (the result's detections
\* being well formed).
C7_EncodingFailureTolerated ==
    (/\ Detected
     /\ trace.encoded \in {"fail", "raises"}
     /\ \A i \in 1..Len(trace.analysis_results[1]["detections"]) :
            DOMAIN trace.analysis_results[1]["detections"][i]
                = {"class_name", "confidence"})
        => /\ resp.status = 200
           /\ resp.body.success
           /\ resp.body.heatmap_image_base64 = None
           /\ resp.body.message = trace.analysis_results[1]["message"]
           /\ resp.body.severity_score = Some(trace.analysis_results[1]["severity_score"])
           /\ resp.body.percentage_area = Some(trace.analysis_results[1]["percentage_area"])
           /\ resp.body.average_intensity = Some(trace.analysis_results[1]["average_intensity"])
           /\ resp.body.lesion_count = Some(trace.analysis_results[1]["lesion_count"])
           /\ resp.body.detections = trace.analysis_results[1]["detections"]
           /\ resp.body.model_classes = Some(trace.analysis_results[1]["model_classes"])

C7_Witness ==
    /\ Detected
    /\ trace.encoded = "raises"
    /\ resp.status = 200
    /\ resp.body.heatmap_image_base64 = None
    /\ resp.body.severity_score = Some(42)

DigitValue(c) == CHOOSE n \in 0..9 : Digit(n) = c

\* The date an ISO-8601 text YYYY-MM-DD denotes.
ParseIso(t) ==
    [year  |-> 1000 * DigitValue(t[1]) + 100 * DigitValue(t[2])
               + 10 * DigitValue(t[3]) + DigitValue(t[4]),
     month |-> 10 * DigitValue(t[6]) + DigitValue(t[7]),
     day   |-> 10 * DigitValue(t[9]) + DigitValue(t[10])]

IsIsoText(t) ==
    /\ Len(t) = 10
    /\ t[5] = "-" /\ t[8] = "-"
    /\ \A i \in {1, 2, 3, 4, 6, 7, 9, 10} : \E n \in 0..9 : Digit(n) = t[i]

\* C9: with a faithful store, get_profile after save_profile for the same
\* user_id returns what was saved, field by field, the date of birth as its
\* ISO-8601 text, also after saves for other user_ids.
C9_SaveThenGet ==
    (/\ resp.endpoint = "get_profile"
     /\ trace.called
     /\ ~trace.store_raised
     /\ saved[req.user_id] # None)
        => /\ resp.status = 200
           /\ resp.body.user_id = req.user_id
           /\ resp.body.name = saved[req.user_id][1].name
           /\ IsIsoText(resp.body.dob)
           /\ ParseIso(resp.body.dob) = saved[req.user_id][1].dob
           /\ resp.body.height = saved[req.user_id][1].height
           /\ resp.body.weight = saved[req.user_id][1].weight
           /\ resp.body.gender = saved[req.user_id][1].gender

C9_Witness ==
    /\ resp.endpoint = "get_profile"
    /\ req.user_id = "user_1"
    /\ resp.status = 200
    /\ saved["user_1"] # None
    /\ saved["user_2"] # None
    /\ saved["user_2"][1].name # saved["user_1"][1].name
    /\ resp.body.name = saved["user_1"][1].name
    /\ resp.body.dob = <<"0", "9", "8", "7", "-", "0", "6", "-", "0", "5">>

\* The request got as far as the check of line 218.
ReachedWeightsCheck ==
    /\ Detected
    /\ req.file.content_type \in {"image/jpeg", "image/png", "image/bmp"}
    /\ req.file.content.size > 0
    /\ req.file.content.image # None
    /\ trace.failed_call \notin {"NamedTemporaryFile", "read", "write", "resize"}

\* C10: the weights file is checked in every request, after staging and
\* normalization: a request that gets that far while the file is missing
\* yields 503 without invoking the detection engine, whatever the file was at
\* startup; the engine is invoked only for an allowed content type, a
\* non-empty decodable payload and an existing weights file.
C10_WeightsRecheckedPerRequest ==
    /\ (ReachedWeightsCheck /\ ~req.weights_exist)
          => resp.status = 503 /\ ~trace.invoked
    /\ (Detected /\ trace.invoked)
          => /\ req.file.content_type \in {"image/jpeg", "image/png", "image/bmp"}
             /\ req.file.content.size > 0
             /\ req.file.content.image # None
             /\ req.weights_exist

C10_Witness ==
    /\ ReachedWeightsCheck
    /\ weights_at_startup
    /\ ~req.weights_exist
    /\ resp.status = 503
    /\ trace.image = Some([width |-> 640, height |-> 640])

====
